---- MODULE Spec2Model ----
(***************************************************************************)
(* SSD1315 OLED driver (src/ssd1315.py): the controller object, its        *)
(* page-addressed frame buffer, the I2C transactions it issues and the     *)
(* Canvas context manager.                                                 *)
(*                                                                         *)
(* The I2C transport (smbus2) is the environment: every write the driver   *)
(* asks for is recorded in `sent` unless the transport raises, in which      *)
(* case the exception leaves the handler at that write.                    *)
(***************************************************************************)
EXTENDS Integers, Sequences, FiniteSets, TLC

VARIABLES
    state,      \* "Uninitialized" | "Ready" | "Closed" | "Failed" (constructor raised)
    width,      \* self.width
    height,     \* self.height
    rotate,     \* self.rotate
    pages,      \* self.pages
    buffer,     \* self._buffer, a sequence of integers (index 1 is Python index 0)
    busOpen,    \* whether self.bus holds an open transport handle
    sent,       \* the writes the transport accepted during the most recent call, in order
    call,       \* the most recent call on the controller or the canvas: its name, its
                \* arguments, the methods it ran in turn, and what it raised
    canvas      \* the Canvas object of the open `with` scope, if any

vars == <<state, width, height, rotate, pages, buffer, busOpen, sent, call, canvas>>

----------------------------------------------------------------------------
(* Bounds of the exploration *)

MaxDraw == 2        \* points drawn inside one Canvas scope

\* Constructor arguments <<width, height, rotate>> that are tried.
Geometries ==
    { <<64, 32, 0>>, <<5, 64, 2>>, <<3, 16, 180>>, <<2, 8, 90>>,
      <<3, 12, 0>>, <<0, 8, 0>> }

\* Coordinates tried by set_pixel, inside and just outside the panel.
PixelArgs ==
    { <<0, 0>>, <<0, 8>>, <<width - 1, 7>>, <<width - 1, height - 1>>,
      <<-1, 0>>, <<width, 0>>, <<0, -1>>, <<0, height>>, <<width, height>> }
Colors == {0, 1}
Levels == {-1, 0, 255, 256}

\* Points a Canvas body draws on its surface (the surface clips to its size).
DrawPoints ==
    { p \in { <<0, 0>>, <<32, 16>>, <<width - 1, height - 1>> } :
        /\ 0 <= p[1] /\ p[1] < width
        /\ 0 <= p[2] /\ p[2] < height }

----------------------------------------------------------------------------
(* Command constants, src/ssd1315.py:42-63 *)

DISPLAY_OFF == 174
DISPLAY_ON == 175
SET_CLOCK_DIV == 213
SET_MUX_RATIO == 168
SET_DISPLAY_OFFSET == 211
SET_START_LINE == 64
CHARGE_PUMP == 141
CHARGE_PUMP_ON == 20
SET_MEMORY_MODE == 32
SEG_REMAP_ON == 161
SEG_REMAP_OFF == 160
COM_SCAN_DEC == 200
COM_SCAN_INC == 192
SET_COM_PINS == 218
SET_CONTRAST == 129
SET_PRECHARGE == 217
SET_VCOMH == 219
DISPLAY_ALL_ON_RESUME == 164
NORMAL_DISPLAY == 166
INVERSE_DISPLAY == 167
SET_COLUMN_ADDR == 33
SET_PAGE_ADDR == 34

CommandPrefix == 0      \* register byte of write_byte_data in _command
DataPrefix == 64        \* register byte of write_i2c_block_data in _data
chunk_size == 32        \* _data

----------------------------------------------------------------------------
(* Helpers *)

Min(a, b) == IF a <= b THEN a ELSE b

RECURSIVE Pow2(_)
Pow2(n) == IF n = 0 THEN 1 ELSE 2 * Pow2(n - 1)

\* Bit n of the non-negative integer b.
Bit(b, n) == (b \div Pow2(n)) % 2

\* b + (1 << n): the bit added instead of or-ed.
OrBitAdds(b, n) == b + Pow2(n)

\* b | (1 << n)
OrBit(b, n) == IF Bit(b, n) = 1 THEN b ELSE b + Pow2(n)

\* b & ~(1 << n)
AndNotBit(b, n) == IF Bit(b, n) = 1 THEN b - Pow2(n) ELSE b

\* v & 0xFF for a Python integer of either sign (two's complement of
\* unbounded width): the low eight bits of v, bit by bit.
AndFF(v) ==
    LET low(n) == ((v \div Pow2(n)) % 2) * Pow2(n)
    IN  low(0) + low(1) + low(2) + low(3) + low(4) + low(5) + low(6) + low(7)

\* [v] * n ; a non-positive n gives the empty list.
Repeat(v, n) == [i \in 1..n |-> v]

\* One accepted transport call.
ByteWrite(cmd) == [op |-> "write_byte_data", reg |-> CommandPrefix, data |-> <<cmd>>]
BlockWrite(chunk) == [op |-> "write_i2c_block_data", reg |-> DataPrefix, data |-> chunk]

\* _command(*cmds) walking its arguments from the last to the first.
CommandReversed(cmds) == [i \in 1..Len(cmds) |-> ByteWrite(cmds[Len(cmds) + 1 - i])]

\* _command(*cmds): one write_byte_data per command byte, in argument order.
Command(cmds) == [i \in 1..Len(cmds) |-> ByteWrite(cmds[i])]

\* _data(data_bytes) that writes full chunks only and drops a shorter last one.
DataDropsTail(bytes) ==
    [j \in 1..(Len(bytes) \div chunk_size) |->
        BlockWrite(SubSeq(bytes, chunk_size * (j - 1) + 1, chunk_size * j))]

\* _data(data_bytes): for i in range(0, len, chunk_size): write data[i:i+chunk_size].
Data(bytes) ==
    [j \in 1..((Len(bytes) + chunk_size - 1) \div chunk_size) |->
        BlockWrite(SubSeq(bytes, chunk_size * (j - 1) + 1,
                          Min(chunk_size * j, Len(bytes))))]

\* _init_display, "Segment remap and COM scan direction based on rotation",
\* with the two branches exchanged.
RotationCommandsExchanged(r) ==
    IF r = 0
    THEN Command(<<SEG_REMAP_OFF>>) \o Command(<<COM_SCAN_INC>>)
    ELSE Command(<<SEG_REMAP_ON>>) \o Command(<<COM_SCAN_DEC>>)

\* _init_display, "Segment remap and COM scan direction based on rotation".
RotationCommands(r) ==
    IF r = 0
    THEN Command(<<SEG_REMAP_ON>>) \o Command(<<COM_SCAN_DEC>>)
    ELSE Command(<<SEG_REMAP_OFF>>) \o Command(<<COM_SCAN_INC>>)

\* _init_display, "COM pins configuration", with `<` for `<=`.
ComPinsCommandsStrict(h) ==
    Command(<<SET_COM_PINS, IF h < 32 THEN 2 ELSE 18>>)

\* _init_display, "COM pins configuration".
ComPinsCommands(h) ==
    Command(<<SET_COM_PINS, IF h <= 32 THEN 2 ELSE 18>>)

\* _init_display with the display switched on before the contrast is set.
InitCommandsOnEarly(h, r) ==
    Command(<<DISPLAY_OFF>>)
    \o Command(<<SET_CLOCK_DIV, 128>>)
    \o Command(<<SET_MUX_RATIO, h - 1>>)
    \o Command(<<SET_DISPLAY_OFFSET, 0>>)
    \o Command(<<SET_START_LINE>>)
    \o Command(<<CHARGE_PUMP, CHARGE_PUMP_ON>>)
    \o Command(<<SET_MEMORY_MODE, 0>>)
    \o RotationCommands(r)
    \o ComPinsCommands(h)
    \o Command(<<DISPLAY_ON>>)
    \o Command(<<SET_CONTRAST, 207>>)
    \o Command(<<SET_PRECHARGE, 241>>)
    \o Command(<<SET_VCOMH, 64>>)
    \o Command(<<DISPLAY_ALL_ON_RESUME>>)
    \o Command(<<NORMAL_DISPLAY>>)

\* The writes _init_display asks for before clear() and display().
InitCommands(h, r) ==
    Command(<<DISPLAY_OFF>>)
    \o Command(<<SET_CLOCK_DIV, 128>>)
    \o Command(<<SET_MUX_RATIO, h - 1>>)
    \o Command(<<SET_DISPLAY_OFFSET, 0>>)
    \o Command(<<SET_START_LINE>>)
    \o Command(<<CHARGE_PUMP, CHARGE_PUMP_ON>>)
    \o Command(<<SET_MEMORY_MODE, 0>>)
    \o RotationCommands(r)
    \o ComPinsCommands(h)
    \o Command(<<SET_CONTRAST, 207>>)
    \o Command(<<SET_PRECHARGE, 241>>)
    \o Command(<<SET_VCOMH, 64>>)
    \o Command(<<DISPLAY_ALL_ON_RESUME>>)
    \o Command(<<NORMAL_DISPLAY>>)
    \o Command(<<DISPLAY_ON>>)

\* display() with the column window ending at width instead of width - 1.
DisplayTxsWideWindow(buf, w, p) ==
    Command(<<SET_COLUMN_ADDR, 0, w>>)
    \o Command(<<SET_PAGE_ADDR, 0, p - 1>>)
    \o Data(buf)

\* The writes display() asks for, given the buffer it reads.
DisplayTxs(buf, w, p) ==
    Command(<<SET_COLUMN_ADDR, 0, w - 1>>)
    \o Command(<<SET_PAGE_ADDR, 0, p - 1>>)
    \o Data(buf)

\* clear(): a new zeroed list.
Cleared(w, p) == Repeat(0, w * p)

\* fill(color) storing the colour itself in each byte.
FilledWithColor(color, w, p) == Repeat(IF color # 0 THEN 1 ELSE 0, w * p)

\* fill(color)
Filled(color, w, p) == Repeat(IF color # 0 THEN 255 ELSE 0, w * p)

\* set_pixel with the upper bounds tested by `<=`.
SetPixelInclusive(buf, x, y, color) ==
    IF 0 <= x /\ x <= width /\ 0 <= y /\ y <= height
    THEN LET page == y \div 8
             bit == y % 8
             idx == page * width + x
         IN  IF idx >= Len(buf)
             THEN [buffer |-> buf, raised |-> "IndexError"]
             ELSE [buffer |-> [buf EXCEPT ![idx + 1] =
                                 IF color # 0 THEN OrBit(@, bit) ELSE AndNotBit(@, bit)],
                   raised |-> "none"]
    ELSE [buffer |-> buf, raised |-> "none"]

\* set_pixel(x, y, color) on buffer buf: the new buffer and what was raised.
\* The list access self._buffer[idx] raises IndexError when idx >= len.
SetPixel(buf, x, y, color) ==
    IF 0 <= x /\ x < width /\ 0 <= y /\ y < height
    THEN LET page == y \div 8
             bit == y % 8
             idx == page * width + x
         IN  IF idx >= Len(buf)
             THEN [buffer |-> buf, raised |-> "IndexError"]
             ELSE [buffer |-> [buf EXCEPT ![idx + 1] =
                                 IF color # 0 THEN OrBit(@, bit) ELSE AndNotBit(@, bit)],
                   raised |-> "none"]
    ELSE [buffer |-> buf, raised |-> "none"]

\* The first set pixel of the scan `for y ...: for x ...:` of image().
FirstInScan(pts) ==
    CHOOSE p \in pts : \A q \in pts : p[2] < q[2] \/ (p[2] = q[2] /\ p[1] <= q[1])

\* The pixel loop of image(): set_pixel(x, y, 1) for each set pixel in scan
\* order (clear pixels are skipped by the `if`), stopping where one raises.
RECURSIVE ImageLoop(_, _)
ImageLoop(buf, pts) ==
    IF pts = {} THEN [buffer |-> buf, raised |-> "none"]
    ELSE LET p == FirstInScan(pts)
             r == SetPixel(buf, p[1], p[2], 1)
         IN  IF r.raised # "none" THEN r ELSE ImageLoop(r.buffer, pts \ {p})

\* image(img) for a mode-'1' image of the controller's size whose set pixels
\* are pts: clear(), then the pixel loop.
Image(pts) == ImageLoop(Cleared(width, pages), pts)

----------------------------------------------------------------------------
(* The transport *)

\* How many of n requested writes the transport accepts before it raises:
\* n when none fails. A closed handle accepts none.
Accepted(n) == IF busOpen THEN 0..n ELSE {0}

\* What a handler raises when k of its n writes were accepted.
Raised(k, n) == IF k < n THEN "TransportError" ELSE "none"

NoCall == [op |-> "none", args |-> <<>>, trace |-> <<>>, raised |-> "none"]
NoCanvas == [open |-> FALSE, pts |-> {}]

----------------------------------------------------------------------------
(* Operations *)

Init ==
    /\ state = "Uninitialized"
    /\ width = 0 /\ height = 0 /\ rotate = 0 /\ pages = 0
    /\ buffer = <<>>
    /\ busOpen = FALSE
    /\ sent = <<>>
    /\ call = NoCall
    /\ canvas = NoCanvas

\* SSD1315(width=w, height=h, rotate=r) when smbus2.SMBus(bus) raises.
ConstructNoBus(w, h, r) ==
    /\ state = "Uninitialized"
    /\ state' = "Failed"
    /\ call' = [op |-> "__init__", args |-> <<w, h, r>>, trace |-> <<>>,
                raised |-> "TransportError"]
    /\ UNCHANGED <<width, height, rotate, pages, buffer, busOpen, sent, canvas>>

\* The writes __init__ asks for: _init_display's commands, then display()
\* of the cleared buffer.
ConstructTxs(w, h, r) ==
    InitCommands(h, r) \o DisplayTxs(Cleared(w, h \div 8), w, h \div 8)

\* SSD1315(width=w, height=h, rotate=r) with the transport opened.
Construct(w, h, r) ==
    /\ state = "Uninitialized"
    /\ LET txs == ConstructTxs(w, h, r)
           n == Len(txs)
       IN  \E k \in 0..n :
             /\ width' = w /\ height' = h /\ rotate' = r /\ pages' = h \div 8
             /\ buffer' = Repeat(0, w * (h \div 8))
             /\ busOpen' = TRUE
             /\ sent' = SubSeq(txs, 1, k)
             /\ state' = IF k < n THEN "Failed" ELSE "Ready"
             /\ call' = [op |-> "__init__", args |-> <<w, h, r>>,
                         trace |-> IF k < Len(InitCommands(h, r))
                                   THEN <<"_init_display">>
                                   ELSE <<"_init_display", "clear", "display">>,
                         raised |-> Raised(k, n)]
    /\ UNCHANGED canvas

\* A controller object exists (__init__ returned) and the caller is not in
\* the body of a Canvas scope.  The body is explored as drawing only: the
\* controller's methods neither read nor write the canvas, so a call made
\* inside the body acts exactly as the same call made before the scope.
Usable == state \in {"Ready", "Closed"} /\ ~canvas.open

\* clear() that also transmits the cleared buffer.
ClearCommits ==
    /\ Usable
    /\ buffer' = Cleared(width, pages)
    /\ LET txs == DisplayTxs(Cleared(width, pages), width, pages)
       IN  \E k \in Accepted(Len(txs)) :
             /\ sent' = SubSeq(txs, 1, k)
             /\ call' = [op |-> "clear", args |-> <<>>, trace |-> <<"display">>,
                         raised |-> Raised(k, Len(txs))]
    /\ UNCHANGED <<state, width, height, rotate, pages, busOpen, canvas>>

\* clear()
Clear ==
    /\ Usable
    /\ buffer' = Cleared(width, pages)
    /\ sent' = <<>>
    /\ call' = [op |-> "clear", args |-> <<>>, trace |-> <<>>, raised |-> "none"]
    /\ UNCHANGED <<state, width, height, rotate, pages, busOpen, canvas>>

\* fill(color)
Fill(color) ==
    /\ Usable
    /\ buffer' = Filled(color, width, pages)
    /\ sent' = <<>>
    /\ call' = [op |-> "fill", args |-> <<color>>, trace |-> <<>>, raised |-> "none"]
    /\ UNCHANGED <<state, width, height, rotate, pages, busOpen, canvas>>

\* set_pixel(x, y, color)
Set_pixel(x, y, color) ==
    /\ Usable
    /\ LET r == SetPixel(buffer, x, y, color)
       IN  /\ buffer' = r.buffer
           /\ call' = [op |-> "set_pixel", args |-> <<x, y, color>>, trace |-> <<>>,
                       raised |-> r.raised]
    /\ sent' = <<>>
    /\ UNCHANGED <<state, width, height, rotate, pages, busOpen, canvas>>

\* A handler that catches the failure of a write, goes on with the writes
\* after it and raises at the end.
BusCallGoOn(name, args, trace, txs) ==
    \E k \in Accepted(Len(txs)) :
        /\ sent' = SubSeq(txs, 1, k) \o SubSeq(txs, k + 2, Len(txs))
        /\ call' = [op |-> name, args |-> args, trace |-> trace,
                    raised |-> Raised(k, Len(txs))]

\* A handler that only writes to the bus: txs are the writes it asks for, of
\* which the first k are accepted.
BusCall(name, args, trace, txs) ==
    \E k \in Accepted(Len(txs)) :
        /\ sent' = SubSeq(txs, 1, k)
        /\ call' = [op |-> name, args |-> args, trace |-> trace,
                    raised |-> Raised(k, Len(txs))]

\* display()
Display ==
    /\ Usable
    /\ BusCall("display", <<>>, <<>>, DisplayTxs(buffer, width, pages))
    /\ UNCHANGED <<state, width, height, rotate, pages, buffer, busOpen, canvas>>

\* contrast(level) that clamps the level to 0..255 instead of masking it.
ContrastTxsClamped(level) ==
    Command(<<SET_CONTRAST, IF level < 0 THEN 0 ELSE Min(level, 255)>>)

\* contrast(level): _command(SET_CONTRAST, level & 0xFF)
ContrastTxs(level) == Command(<<SET_CONTRAST, AndFF(level)>>)

Contrast(level) ==
    /\ Usable
    /\ BusCall("contrast", <<level>>, <<>>, ContrastTxs(level))
    /\ UNCHANGED <<state, width, height, rotate, pages, buffer, busOpen, canvas>>

\* invert(enable) with the two commands exchanged.
InvertTxsExchanged(enable) ==
    Command(<<IF enable THEN NORMAL_DISPLAY ELSE INVERSE_DISPLAY>>)

\* invert(enable)
InvertTxs(enable) == Command(<<IF enable THEN INVERSE_DISPLAY ELSE NORMAL_DISPLAY>>)

Invert(enable) ==
    /\ Usable
    /\ BusCall("invert", <<IF enable THEN 1 ELSE 0>>, <<>>, InvertTxs(enable))
    /\ UNCHANGED <<state, width, height, rotate, pages, buffer, busOpen, canvas>>

\* power(on)
PowerTxs(on) == Command(<<IF on THEN DISPLAY_ON ELSE DISPLAY_OFF>>)

Power(on) ==
    /\ Usable
    /\ BusCall("power", <<IF on THEN 1 ELSE 0>>, <<>>, PowerTxs(on))
    /\ UNCHANGED <<state, width, height, rotate, pages, buffer, busOpen, canvas>>

\* close() that powers the panel off and forgets self.bus.close().
CloseLeavesOpen ==
    /\ Usable
    /\ LET txs == PowerTxs(FALSE)
       IN  \E k \in Accepted(Len(txs)) :
             /\ sent' = SubSeq(txs, 1, k)
             /\ call' = [op |-> "close", args |-> <<>>, trace |-> <<"power">>,
                         raised |-> Raised(k, Len(txs))]
    /\ UNCHANGED <<state, width, height, rotate, pages, buffer, busOpen, canvas>>

\* close() that releases the handle in a `finally`, whatever power(False) did.
CloseAlways ==
    /\ Usable
    /\ LET txs == PowerTxs(FALSE)
       IN  \E k \in Accepted(Len(txs)) :
             /\ sent' = SubSeq(txs, 1, k)
             /\ call' = [op |-> "close", args |-> <<>>,
                         trace |-> <<"power", "bus.close">>,
                         raised |-> Raised(k, Len(txs))]
             /\ busOpen' = FALSE
             /\ state' = "Closed"
    /\ UNCHANGED <<width, height, rotate, pages, buffer, canvas>>

\* close(): power(False), then self.bus.close() if that returned.
Close ==
    /\ Usable
    /\ LET txs == PowerTxs(FALSE)
       IN  \E k \in Accepted(Len(txs)) :
             /\ sent' = SubSeq(txs, 1, k)
             /\ call' = [op |-> "close", args |-> <<>>,
                         trace |-> IF k < Len(txs) THEN <<"power">>
                                   ELSE <<"power", "bus.close">>,
                         raised |-> Raised(k, Len(txs))]
             /\ busOpen' = IF k < Len(txs) THEN busOpen ELSE FALSE
             /\ state' = IF k < Len(txs) THEN state ELSE "Closed"
    /\ UNCHANGED <<width, height, rotate, pages, buffer, canvas>>

\* The 1-bit bitmaps of the controller's size that are handed to image(),
\* each given by the set of its set pixels.
Bitmaps == { pts \in SUBSET DrawPoints : Cardinality(pts) <= MaxDraw }

\* image(img) called on the controller with a mode-'1' image of its size.
ImageCall(pts) ==
    /\ Usable
    /\ LET r == Image(pts)
       IN  /\ buffer' = r.buffer
           /\ call' = [op |-> "image", args |-> <<pts>>, trace |-> <<"clear">>,
                       raised |-> r.raised]
    /\ sent' = <<>>
    /\ UNCHANGED <<state, width, height, rotate, pages, busOpen, canvas>>

\* `with canvas(display) as draw:` -- Canvas.__init__ and __enter__: a new
\* surface of the controller's size, all pixels clear.
CanvasEnter ==
    /\ Usable
    /\ canvas' = [open |-> TRUE, pts |-> {}]
    /\ sent' = <<>>
    /\ call' = [op |-> "Canvas.__enter__", args |-> <<>>, trace |-> <<>>,
                raised |-> "none"]
    /\ UNCHANGED <<state, width, height, rotate, pages, buffer, busOpen>>

\* draw.point(p, fill=1) inside the scope.
Draw(p) ==
    /\ canvas.open
    /\ Cardinality(canvas.pts) < MaxDraw
    /\ p \notin canvas.pts
    /\ canvas' = [canvas EXCEPT !.pts = @ \cup {p}]
    /\ sent' = <<>>
    /\ call' = [op |-> "draw.point", args |-> p, trace |-> <<>>, raised |-> "none"]
    /\ UNCHANGED <<state, width, height, rotate, pages, buffer, busOpen>>

\* Canvas.__exit__ ending in `return True`: the exception of the body is
\* reported as handled.
CanvasExitHandled(bodyRaised) ==
    /\ canvas.open
    /\ LET r == Image(canvas.pts)
           txs == IF r.raised = "none" THEN DisplayTxs(r.buffer, width, pages) ELSE <<>>
           n == Len(txs)
       IN  \E k \in Accepted(n) :
             /\ buffer' = r.buffer
             /\ sent' = SubSeq(txs, 1, k)
             /\ call' = [op |-> "Canvas.__exit__",
                         args |-> <<IF bodyRaised THEN 1 ELSE 0>>,
                         trace |-> IF r.raised = "none" THEN <<"image", "display">>
                                   ELSE <<"image">>,
                         raised |-> IF r.raised # "none" THEN r.raised
                                    ELSE IF k < n THEN "TransportError"
                                    ELSE "none"]
    /\ canvas' = NoCanvas
    /\ UNCHANGED <<state, width, height, rotate, pages, busOpen>>

\* Canvas.__exit__: device.image(self.image); device.display(); return False.
\* bodyRaised says whether the scope is left by an exception of the body.
CanvasExit(bodyRaised) ==
    /\ canvas.open
    /\ LET r == Image(canvas.pts)
           txs == IF r.raised = "none" THEN DisplayTxs(r.buffer, width, pages) ELSE <<>>
           n == Len(txs)
       IN  \E k \in Accepted(n) :
             /\ buffer' = r.buffer
             /\ sent' = SubSeq(txs, 1, k)
             /\ call' = [op |-> "Canvas.__exit__",
                         args |-> <<IF bodyRaised THEN 1 ELSE 0>>,
                         trace |-> IF r.raised = "none" THEN <<"image", "display">>
                                   ELSE <<"image">>,
                         raised |-> IF r.raised # "none" THEN r.raised
                                    ELSE IF k < n THEN "TransportError"
                                    ELSE IF bodyRaised THEN "BodyError"
                                    ELSE "none"]
    /\ canvas' = NoCanvas
    /\ UNCHANGED <<state, width, height, rotate, pages, busOpen>>

Next ==
    \/ \E g \in Geometries : ConstructNoBus(g[1], g[2], g[3])
    \/ \E g \in Geometries : Construct(g[1], g[2], g[3])
    \/ Clear
    \/ \E c \in Colors : Fill(c)
    \/ \E p \in PixelArgs, c \in Colors : Set_pixel(p[1], p[2], c)
    \/ Display
    \/ \E pts \in Bitmaps : ImageCall(pts)
    \/ \E l \in Levels : Contrast(l)
    \/ \E e \in BOOLEAN : Invert(e)
    \/ \E o \in BOOLEAN : Power(o)
    \/ Close
    \/ CanvasEnter
    \/ \E p \in DrawPoints : Draw(p)
    \/ \E b \in BOOLEAN : CanvasExit(b)

Spec == Init /\ [][Next]_vars

----------------------------------------------------------------------------
(* _data on its own: payloads of every length up to MaxPayload handed to    *)
(* the data path of a controller that has just been constructed.            *)

MaxPayload == 100   \* longest payload handed to _data

\* A payload of n bytes, no two neighbouring chunks alike.
Bytes(n) == [i \in 1..n |-> (7 * i) % 256]

\* The state in which SSD1315() with its default arguments has returned.
InitData ==
    /\ state = "Ready"
    /\ width = 64 /\ height = 32 /\ rotate = 0 /\ pages = 4
    /\ buffer = Cleared(64, 4)
    /\ busOpen = TRUE
    /\ sent = ConstructTxs(64, 32, 0)
    /\ call = [op |-> "__init__", args |-> <<64, 32, 0>>,
               trace |-> <<"_init_display", "clear", "display">>, raised |-> "none"]
    /\ canvas = NoCanvas

\* _data(data_bytes) with a payload of n bytes.
SendData(n) ==
    /\ Usable
    /\ BusCall("_data", <<n>>, <<>>, Data(Bytes(n)))
    /\ UNCHANGED <<state, width, height, rotate, pages, buffer, busOpen, canvas>>

NextData == \E n \in 0..MaxPayload : SendData(n)

SpecData == InitData /\ [][NextData]_vars

----------------------------------------------------------------------------
(* Vocabulary of the properties *)

IsCommandWrite(t) ==
    t.op = "write_byte_data" /\ t.reg = 0 /\ Len(t.data) = 1

IsDataWrite(t) ==
    t.op = "write_i2c_block_data" /\ t.reg = 64 /\ Len(t.data) \in 1..32

\* The command bytes of a run of command writes.
CmdBytes(s) == [i \in 1..Len(s) |-> s[i].data[1]]

\* The payloads of a run of writes, concatenated in issue order.
RECURSIVE Payload(_)
Payload(s) == IF s = <<>> THEN <<>> ELSE Head(s).data \o Payload(Tail(s))

Zeros(n) == [i \in 1..n |-> 0]

\* s is what one complete commit of buffer buf puts on the bus.
IsCommit(s, buf) ==
    /\ Len(s) >= 6
    /\ \A i \in 1..6 : IsCommandWrite(s[i])
    /\ CmdBytes(SubSeq(s, 1, 6)) = <<33, 0, width - 1, 34, 0, pages - 1>>
    /\ \A i \in 7..Len(s) : IsDataWrite(s[i])
    /\ Payload(SubSeq(s, 7, Len(s))) = buf
    /\ Len(buf) = width * pages

IsPrefix(s, t) == Len(s) <= Len(t) /\ s = SubSeq(t, 1, Len(s))

InPanel(x, y) == 0 <= x /\ x < width /\ 0 <= y /\ y < height

\* The geometry invariant of the data model: height a positive multiple of 8
\* and width positive.
ValidGeometry(w, h) == w > 0 /\ h > 0 /\ h % 8 = 0

Constructed == call.op = "__init__" /\ call.raised = "none"

----------------------------------------------------------------------------
(* C1: a successful construction has put on the bus, as its first traffic,  *)
(* exactly the 25 initialization command bytes in their fixed order, each   *)
(* as its own command write, and then one commit of the cleared buffer:     *)
(* the addressing commands and width*pages zero bytes of data.  The last    *)
(* power command is therefore 0xAF, the last polarity command 0xA6 and the  *)
(* last contrast 0xCF.                                                      *)
C1_InitStream ==
    /\ (state = "Uninitialized" => (sent = <<>> /\ ~busOpen))
    /\ Constructed =>
         /\ Len(sent) >= 31
         /\ \A i \in 1..25 : IsCommandWrite(sent[i])
         /\ \E sr \in {160, 161}, cs \in {192, 200}, cp \in {2, 18} :
               CmdBytes(SubSeq(sent, 1, 25)) =
                 << 174, 213, 128, 168, height - 1, 211, 0, 64, 141, 20, 32, 0,
                    sr, cs, 218, cp, 129, 207, 217, 241, 219, 64, 164, 166, 175 >>
         /\ IsCommit(SubSeq(sent, 26, Len(sent)), Zeros(width * pages))
         /\ buffer = Zeros(width * pages)
         /\ call.trace = <<"_init_display", "clear", "display">>

C1_Witness ==
    /\ Constructed /\ state = "Ready"
    /\ width = 64 /\ height = 32
    /\ Len(sent) = 39
    /\ sent[25].data = <<175>>

(* C2 as stated: rotation 0 gives 0xA1 then 0xC8, rotation 180 gives 0xA0   *)
(* then 0xC0, and no other rotation value yields an accepted                *)
(* initialization.                                                          *)
C2_OnlyTwoRotations ==
    Constructed =>
        /\ rotate \in {0, 180}
        /\ rotate = 0 => CmdBytes(SubSeq(sent, 13, 14)) = <<161, 200>>
        /\ rotate = 180 => CmdBytes(SubSeq(sent, 13, 14)) = <<160, 192>>

(* C2 as amended: whenever initialization got as far as the COM-scan        *)
(* command, writes 13 and 14 are 0xA1 then 0xC8 if rotation is 0 and 0xA0   *)
(* then 0xC0 for every other rotation value (180, the documented 2, or      *)
(* anything else); no rotation value is rejected: a construction raises     *)
(* only when the transport does.                                            *)
C2_Rotation ==
    call.op = "__init__" =>
        /\ Len(sent) >= 14 =>
             CmdBytes(SubSeq(sent, 13, 14)) =
                 IF call.args[3] = 0 THEN <<161, 200>> ELSE <<160, 192>>
        /\ call.raised \in {"none", "TransportError"}
        /\ (call.raised = "none" /\ Len(sent) >= 14) \/ call.raised = "TransportError"

C2_Witness ==
    /\ Constructed /\ state = "Ready"
    /\ rotate = 2
    /\ CmdBytes(SubSeq(sent, 13, 14)) = <<160, 192>>

(* C3: during initialization the byte written right after the SET_COM_PINS  *)
(* opcode 0xDA is 0x02 when height <= 32 and 0x12 when height > 32; the     *)
(* pair follows the COM-scan byte and precedes the contrast command.        *)
C3_ComPins ==
    (call.op = "__init__" /\ Len(sent) >= 17) =>
        /\ sent[14].data[1] \in {192, 200}
        /\ sent[15].data = <<218>>
        /\ sent[16].data = << IF call.args[2] <= 32 THEN 2 ELSE 18 >>
        /\ sent[17].data = <<129>>
        /\ \A i \in 1..17 : i # 15 => sent[i].data # <<218>>

C3_Witness ==
    /\ Constructed
    /\ height = 64
    /\ sent[16].data = <<18>>

(* C4: a commit that returns has written 0x21, 0, width-1, 0x22, 0,         *)
(* pages-1 as six command writes and then data writes whose payloads,       *)
(* concatenated, are the frame buffer as it was when the call was made; the *)
(* frame buffer is left as it was.  On the 64x32 panel: after               *)
(* set_pixel(0,0,1) on a fresh controller the payload is 0x01 and 255 zero  *)
(* bytes; after fill(1) it is 8 chunks of 32 bytes 0xFF.                    *)
C4_CommitStep ==
    /\ (call'.op = "display" /\ call'.raised = "none") =>
          /\ IsCommit(sent', buffer)
          /\ buffer' = buffer
    /\ (width = 64 /\ height = 32 /\ Constructed
          /\ call'.op = "set_pixel" /\ call'.args = <<0, 0, 1>>) =>
          buffer' = <<1>> \o Zeros(255)
    /\ (width = 64 /\ height = 32 /\ call.op = "set_pixel"
          /\ buffer = <<1>> \o Zeros(255)
          /\ call'.op = "display" /\ call'.raised = "none") =>
          Payload(SubSeq(sent', 7, Len(sent'))) = <<1>> \o Zeros(255)
    /\ (width = 64 /\ height = 32 /\ call.op = "fill" /\ call.args = <<1>>
          /\ call'.op = "display" /\ call'.raised = "none") =>
          /\ Len(sent') = 6 + 8
          /\ \A i \in 7..14 : sent'[i].data = [j \in 1..32 |-> 255]

C4_Commit == [][C4_CommitStep]_vars

C4_Witness ==
    /\ call.op = "display" /\ call.raised = "none"
    /\ width = 64 /\ height = 32
    /\ Len(sent) = 14
    /\ buffer = <<1>> \o Zeros(255)
    /\ sent[7].data = <<1>> \o Zeros(31)

\* The bit-level effect claimed for set_pixel(x, y, c) with (x, y) in the panel.
PixelEffect(old, new, x, y, c) ==
    LET idx == (y \div 8) * width + x + 1
    IN  /\ idx \in 1..Len(old)
        /\ Len(new) = Len(old)
        /\ \A i \in 1..Len(old) : i # idx => new[i] = old[i]
        /\ new[idx] \in 0..255
        /\ \A b \in 0..7 :
              Bit(new[idx], b) = IF b = y % 8 THEN c ELSE Bit(old[idx], b)

(* C5 as stated: for every (x, y) in the panel and every prior buffer,      *)
(* set_pixel(x, y, 1) sets and set_pixel(x, y, 0) clears bit y mod 8 of the *)
(* byte at (y div 8)*width + x, and nothing else changes.                   *)
C5_SetPixelStep ==
    (call'.op = "set_pixel" /\ InPanel(call'.args[1], call'.args[2])) =>
        /\ call'.raised = "none"
        /\ PixelEffect(buffer, buffer', call'.args[1], call'.args[2], call'.args[3])

C5_SetPixel == [][C5_SetPixelStep]_vars

\* The same on controllers whose geometry satisfies the data model's invariant.
C5_SetPixelValidGeometry == [][ValidGeometry(width, height) => C5_SetPixelStep]_vars

(* C6: for (x, y) outside the panel and either colour, set_pixel leaves the *)
(* frame buffer as it was, raises nothing and writes nothing to the bus.    *)
C6_OutOfRangeStep ==
    (call'.op = "set_pixel" /\ ~InPanel(call'.args[1], call'.args[2])) =>
        /\ buffer' = buffer
        /\ call'.raised = "none"
        /\ sent' = <<>>

C6_OutOfRange == [][C6_OutOfRangeStep]_vars

C6_Witness ==
    /\ call.op = "set_pixel" /\ call.args = <<width, 0, 0>>
    /\ width = 3 /\ height = 16
    /\ buffer = [i \in 1..6 |-> 255]

(* C7: after fill(1) the frame buffer has width*pages bytes, all 0xFF;      *)
(* after fill(0) it has as many, all 0x00.                                  *)
C7_Fill ==
    call.op = "fill" =>
        /\ Len(buffer) = width * pages
        /\ \A i \in 1..Len(buffer) :
              buffer[i] = IF call.args[1] = 1 THEN 255 ELSE 0

C7_Witness ==
    /\ call.op = "fill" /\ call.args = <<1>>
    /\ width = 64 /\ height = 32
    /\ Len(buffer) = 256 /\ buffer[256] = 255

\* The frame buffer that shows exactly the points pts: each point's bit is
\* set in its byte, and no other bit of any byte is.
ByteIndex(p) == (p[2] \div 8) * width + p[1] + 1

Shows(buf, pts) ==
    /\ Len(buf) = width * pages
    /\ \A p \in pts : ByteIndex(p) \in 1..Len(buf)
    /\ \A i \in 1..Len(buf) :
          IF \E p \in pts : ByteIndex(p) = i
          THEN \A b \in 0..7 :
                 Bit(buf[i], b) =
                   IF \E p \in pts : ByteIndex(p) = i /\ p[2] % 8 = b THEN 1 ELSE 0
          ELSE buf[i] = 0

(* C8 as stated: every exit from a Canvas scope, normal or by an error of   *)
(* the body, runs one ingest and then one commit, and what is committed is  *)
(* what had been drawn on the surface.                                      *)
C8_CanvasExitStep ==
    call'.op = "Canvas.__exit__" =>
        /\ call'.trace = <<"image", "display">>
        /\ Shows(buffer', canvas.pts)
        /\ call'.raised # "TransportError" => IsCommit(sent', buffer')

C8_CanvasExit == [][C8_CanvasExitStep]_vars

\* The same on controllers whose geometry satisfies the data model's invariant.
C8_CanvasExitValidGeometry ==
    [][ValidGeometry(width, height) => C8_CanvasExitStep]_vars

(* C9 as stated: a construction with a height that is not a positive        *)
(* multiple of 8, or with width <= 0, is rejected with a ConfigurationError *)
(* with the transport never opened and nothing written.  Stated for the     *)
(* constructions during which the transport itself does not fail.           *)
C9_RejectInvalidGeometry ==
    (/\ call.op = "__init__"
     /\ ~ValidGeometry(call.args[1], call.args[2])
     /\ call.raised # "TransportError") =>
        /\ call.raised = "ConfigurationError"
        /\ state # "Ready"
        /\ ~busOpen
        /\ sent = <<>>

\* The writes the call recorded in c asks for when none fails, given the
\* frame buffer it transmits.
Requested(c, buf) ==
    CASE c.op = "__init__" -> ConstructTxs(c.args[1], c.args[2], c.args[3])
      [] c.op = "display" -> DisplayTxs(buf, width, pages)
      [] c.op = "Canvas.__exit__" -> DisplayTxs(buf, width, pages)
      [] c.op = "contrast" -> ContrastTxs(c.args[1])
      [] c.op = "invert" -> InvertTxs(c.args[1] = 1)
      [] c.op = "power" -> PowerTxs(c.args[1] = 1)
      [] c.op = "close" -> PowerTxs(FALSE)
      [] OTHER -> <<>>

(* C10: when a bus write fails during construction, commit, contrast,       *)
(* invert, power, close or a Canvas exit, the call raises at once: the bus  *)
(* has seen exactly the writes that precede the failed one, a strict prefix *)
(* of what the call asks for, none repeated and none after it, and the      *)
(* frame buffer is what it was when the write was attempted.                *)
C10_FailureStep ==
    (call'.raised = "TransportError" /\ call'.op # "__init__") =>
        /\ Len(sent') < Len(Requested(call', buffer'))
        /\ IsPrefix(sent', Requested(call', buffer'))
        /\ call'.op = "Canvas.__exit__" => buffer' = Image(canvas.pts).buffer
        /\ call'.op # "Canvas.__exit__" => buffer' = buffer
        /\ (call'.op = "close" => call'.trace = <<"power">>)

C10_ImmediateFailure ==
    /\ [][C10_FailureStep]_vars
    /\ [](call.op = "__init__" /\ call.raised = "TransportError" =>
            /\ state = "Failed"
            /\ Len(sent) < Len(Requested(call, buffer))
            /\ IsPrefix(sent, Requested(call, buffer))
            /\ buffer \in {<<>>, Zeros(Len(buffer))})

C10_Witness ==
    /\ call.op = "display" /\ call.raised = "TransportError"
    /\ width = 64 /\ height = 32
    /\ Len(sent) = 9
    /\ buffer = [i \in 1..256 |-> 255]

----------------------------------------------------------------------------
(* C11: contrast(level) rejects no level: it raises only when the transport *)
(* does.  When it returns it has sent two command writes, 0x81 and then one *)
(* byte in 0..255 that is congruent to level modulo 256, for negative       *)
(* levels and levels above 255 too; a failed call has sent a prefix of      *)
(* these.  The frame buffer is left as it was.                              *)
C11_ContrastStep ==
    call'.op = "contrast" =>
        LET level == call'.args[1]
        IN  /\ call'.raised \in {"none", "TransportError"}
            /\ buffer' = buffer
            /\ \A i \in 1..Len(sent') : IsCommandWrite(sent'[i])
            /\ Len(sent') <= 2
            /\ Len(sent') >= 1 => sent'[1].data = <<129>>
            /\ Len(sent') = 2 =>
                 /\ sent'[2].data[1] \in 0..255
                 /\ \E q \in -1..1 : level = 256 * q + sent'[2].data[1]
            /\ call'.raised = "none" <=> Len(sent') = 2

C11_Contrast == [][C11_ContrastStep]_vars

C11_Witness ==
    /\ call.op = "contrast" /\ call.args = <<-1>> /\ call.raised = "none"
    /\ CmdBytes(sent) = <<129, 255>>
    /\ \E i \in 1..Len(buffer) : buffer[i] # 0

\* The panel keeps the power and the polarity that the last command of that
\* kind gave it: the value after the command writes s, starting from old.
\* (For runs of one-byte commands, as power() and invert() send.)
LastOf(s, codes, old) ==
    LET at == { i \in 1..Len(s) : s[i].data[1] \in codes }
    IN  IF at = {} THEN old
        ELSE s[CHOOSE i \in at : \A j \in at : j <= i].data[1]

PowerAfter(old, s) == LastOf(s, {174, 175}, old)
PolarityAfter(old, s) == LastOf(s, {166, 167}, old)

(* C12: power(on) puts on the bus nothing but the one command write 0xAF    *)
(* when on is true and 0xAE when it is false; invert(enable) nothing but    *)
(* 0xA7 when enable is true and 0xA6 when it is false.  The command depends *)
(* on the argument alone, so the state a call leaves is the same whatever   *)
(* the state before it, and calling it again with the same argument leaves  *)
(* that state again.  power leaves the polarity and invert leaves the power *)
(* as it was, and neither changes the frame buffer.                         *)
C12_PowerInvertStep ==
    call'.op \in {"power", "invert"} =>
        LET isPower == call'.op = "power"
            yes == call'.args[1] = 1
            want == IF isPower THEN (IF yes THEN 175 ELSE 174)
                    ELSE (IF yes THEN 167 ELSE 166)
        IN  /\ buffer' = buffer
            /\ call'.raised \in {"none", "TransportError"}
            /\ Len(sent') <= 1
            /\ call'.raised = "none" <=> Len(sent') = 1
            /\ \A i \in 1..Len(sent') :
                  IsCommandWrite(sent'[i]) /\ sent'[i].data = <<want>>
            /\ isPower =>
                 /\ \A old \in {166, 167} : PolarityAfter(old, sent') = old
                 /\ \A old \in {174, 175} :
                      /\ call'.raised = "none" => PowerAfter(old, sent') = want
                      /\ PowerAfter(PowerAfter(old, sent'), sent') = PowerAfter(old, sent')
            /\ ~isPower =>
                 /\ \A old \in {174, 175} : PowerAfter(old, sent') = old
                 /\ \A old \in {166, 167} :
                      /\ call'.raised = "none" => PolarityAfter(old, sent') = want
                      /\ PolarityAfter(PolarityAfter(old, sent'), sent')
                           = PolarityAfter(old, sent')

C12_PowerInvert == [][C12_PowerInvertStep]_vars

C12_Witness ==
    /\ call.op = "invert" /\ call.args = <<1>> /\ call.raised = "none"
    /\ CmdBytes(sent) = <<167>>
    /\ state = "Ready"
    /\ \E i \in 1..Len(buffer) : buffer[i] = 255

(* C13: close() puts on the bus the power-off command 0xAE and nothing      *)
(* else, and when that write is accepted it then closes the bus handle:     *)
(* power() runs before bus.close().  The controller is then closed for      *)
(* good: no later call opens the handle again or makes the controller ready *)
(* again, and no later call gets a write onto the bus.                      *)
C13_CloseStep ==
    /\ call'.op = "close" =>
         /\ Len(sent') <= 1
         /\ \A i \in 1..Len(sent') :
               IsCommandWrite(sent'[i]) /\ sent'[i].data = <<174>>
         /\ buffer' = buffer
         /\ call'.raised = "none" =>
              /\ Len(sent') = 1
              /\ call'.trace = <<"power", "bus.close">>
              /\ busOpen /\ ~busOpen'
              /\ state' = "Closed"
    /\ state = "Closed" =>
         /\ state' = "Closed"
         /\ ~busOpen /\ ~busOpen'
         /\ sent' = <<>>

C13_Close == [][C13_CloseStep]_vars

C13_Witness ==
    /\ call.op = "close" /\ call.raised = "none"
    /\ call.trace = <<"power", "bus.close">>
    /\ CmdBytes(sent) = <<174>>
    /\ state = "Closed" /\ ~busOpen

(* C14: _data with a payload of L bytes, when no write fails, has issued    *)
(* exactly ceil(L/32) block writes, each with prefix 0x40 and between 1 and *)
(* 32 payload bytes, every one but the last with exactly 32; their payloads *)
(* joined in issue order are the payload.  A payload of 0 bytes issues no   *)
(* write at all.  A failed call has issued fewer writes, the leading ones.  *)
C14_Chunks ==
    call.op = "_data" =>
        LET L == call.args[1]
            n == IF L % 32 = 0 THEN L \div 32 ELSE L \div 32 + 1
        IN  /\ \A i \in 1..Len(sent) :
                  /\ sent[i].op = "write_i2c_block_data"
                  /\ sent[i].reg = 64
                  /\ Len(sent[i].data) \in 1..32
                  /\ (i < n => Len(sent[i].data) = 32)
            /\ Len(sent) <= n
            /\ call.raised = "none" <=> Len(sent) = n
            /\ call.raised = "none" => Payload(sent) = Bytes(L)
            /\ call.raised # "none" =>
                  Payload(sent) = SubSeq(Bytes(L), 1, 32 * Len(sent))
            /\ L = 0 => (sent = <<>> /\ call.raised = "none")

C14_Witness ==
    /\ call.op = "_data" /\ call.args = <<65>> /\ call.raised = "none"
    /\ Len(sent) = 3
    /\ Len(sent[2].data) = 32 /\ Len(sent[3].data) = 1

\* The command bytes the call recorded in c issues, in the order of the
\* arguments of its _command calls, before any data it sends.
OwnCommands(c) ==
    CASE c.op = "__init__" ->
           << 174, 213, 128, 168, c.args[2] - 1, 211, 0, 64, 141, 20, 32, 0,
              IF c.args[3] = 0 THEN 161 ELSE 160,
              IF c.args[3] = 0 THEN 200 ELSE 192,
              218, IF c.args[2] <= 32 THEN 2 ELSE 18,
              129, 207, 217, 241, 219, 64, 164, 166, 175,
              33, 0, c.args[1] - 1, 34, 0, (c.args[2] \div 8) - 1 >>
      [] c.op \in {"display", "Canvas.__exit__"} ->
           << 33, 0, width - 1, 34, 0, pages - 1 >>
      [] c.op = "contrast" -> << 129, c.args[1] % 256 >>
      [] c.op = "invert" -> << IF c.args[1] = 1 THEN 167 ELSE 166 >>
      [] c.op = "power" -> << IF c.args[1] = 1 THEN 175 ELSE 174 >>
      [] c.op = "close" -> << 174 >>
      [] OTHER -> << >>

\* Whether the call recorded in c transmits the frame buffer after its commands.
SendsBuffer(c) == c.op \in {"__init__", "display", "Canvas.__exit__"}

(* C15: every write on the bus is either a command write, prefix 0x00 with  *)
(* one command byte, or a data write, prefix 0x40 with a chunk of 1..32     *)
(* bytes.  The writes made during a call are that call's own and no other   *)
(* call's: n command codes give n command writes in the order of the        *)
(* arguments, the data chunks follow them in buffer order, a call that      *)
(* returns has issued all of them, a call in which a write fails the ones   *)
(* before that write, and a call that does no bus work, or raises before    *)
(* it, has issued none.  Calls run one after the other, so the writes on    *)
(* the bus are those of the calls joined in the order the calls were made.  *)
C15_OrderStep ==
    LET cmds == OwnCommands(call')
        nC == Min(Len(sent'), Len(cmds))
        data == SubSeq(sent', nC + 1, Len(sent'))
    IN  /\ \A i \in 1..Len(sent') :
              IsCommandWrite(sent'[i]) \/ IsDataWrite(sent'[i])
        /\ \A i \in 1..nC :
              IsCommandWrite(sent'[i]) /\ sent'[i].data[1] = cmds[i]
        /\ \A i \in 1..Len(data) : IsDataWrite(data[i]) /\ SendsBuffer(call')
        /\ IsPrefix(Payload(data), buffer')
        /\ call'.raised = "none" =>
              /\ Len(sent') >= Len(cmds)
              /\ SendsBuffer(call') => Payload(data) = buffer'
        /\ call'.raised = "TransportError" =>
              \/ Len(sent') < Len(cmds)
              \/ SendsBuffer(call') /\ Len(Payload(data)) < Len(buffer')
        /\ call'.raised = "IndexError" => sent' = <<>>

C15_Order == [][C15_OrderStep]_vars

C15_Witness ==
    /\ call.op = "display" /\ call.raised = "none"
    /\ width = 5 /\ height = 64
    /\ Len(sent) = 8
    /\ CmdBytes(SubSeq(sent, 1, 6)) = <<33, 0, 4, 34, 0, 7>>
    /\ sent[7].reg = 64 /\ Len(sent[7].data) = 32
    /\ sent[8].reg = 64 /\ Len(sent[8].data) = 8
    /\ buffer[1] = 1

(* C16: once a controller exists, whatever calls have been made on it       *)
(* (set_pixel, fill, clear, image, display, contrast, invert, power, close, *)
(* Canvas scopes, failed or not), the frame buffer has exactly width*pages  *)
(* elements, pages being the whole quotient of height by 8, and every       *)
(* element is an integer in 0..255.                                         *)
C16_BufferShape ==
    state \in {"Ready", "Closed"} =>
        /\ 8 * pages <= height /\ height < 8 * pages + 8
        /\ Len(buffer) = width * pages
        /\ \A i \in 1..Len(buffer) : buffer[i] \in 0..255

C16_Witness ==
    /\ state = "Ready"
    /\ call.op = "set_pixel" /\ call.args = <<width - 1, 7, 1>>
    /\ width = 64 /\ height = 32
    /\ Len(buffer) = 256
    /\ buffer[64] = 255 /\ buffer[1] = 255

\* The calls that transmit the frame buffer: display(), and __init__ and
\* Canvas.__exit__ which end by calling it.
Commits == {"__init__", "display", "Canvas.__exit__"}

\* The data writes among the writes s, in issue order.
DataWrites(s) == SelectSeq(s, LAMBDA t : t.reg = 64)

(* C17: pixel data reaches the panel through a commit and nothing else.     *)
(* set_pixel, fill, clear and image put no write at all on the bus;         *)
(* contrast, invert, power and close put no data write on it.  The data     *)
(* writes of a commit (display itself, or the one that ends __init__ and    *)
(* Canvas.__exit__) carry the frame buffer as it is at that commit: all of  *)
(* it when the commit returns, its leading bytes when a write fails.  So    *)
(* what the panel was last sent is the buffer of the latest commit, and a   *)
(* change made to the buffer afterwards sends nothing until the next one.   *)
C17_OnlyCommitStep ==
    /\ call'.op \in {"set_pixel", "fill", "clear", "image"} => sent' = <<>>
    /\ call'.op \in {"contrast", "invert", "power", "close"} =>
          /\ DataWrites(sent') = <<>>
          /\ buffer' = buffer
    /\ DataWrites(sent') # <<>> => call'.op \in Commits
    /\ (buffer' # buffer /\ call'.op \notin {"__init__", "Canvas.__exit__"}) =>
          sent' = <<>>
    /\ call'.op \in Commits =>
          /\ IsPrefix(Payload(DataWrites(sent')), buffer')
          /\ call'.raised \in {"none", "BodyError"} =>
                Payload(DataWrites(sent')) = buffer'
          /\ call'.op = "display" => buffer' = buffer

C17_OnlyCommit == [][C17_OnlyCommitStep]_vars

C17_Witness ==
    /\ call.op = "image" /\ call.args = <<{<<0, 0>>}>> /\ call.raised = "none"
    /\ state = "Ready" /\ busOpen
    /\ sent = <<>>
    /\ buffer[1] = 1

(* C18 as stated: image() with a 1-bit bitmap of the controller's size      *)
(* returns, and the frame buffer then shows the bitmap and nothing else     *)
(* whatever it held before: bit (y mod 8) of byte (y div 8)*width + x is 1  *)
(* exactly when pixel (x, y) of the bitmap is set.  The result depends on   *)
(* the bitmap alone, so ingesting the same bitmap again gives it again.     *)
C18_IngestStep ==
    call'.op = "image" =>
        /\ call'.raised = "none"
        /\ Shows(buffer', call'.args[1])
        /\ sent' = <<>>

C18_Ingest == [][C18_IngestStep]_vars

\* The same on controllers whose geometry satisfies the data model's invariant.
C18_IngestValidGeometry ==
    [][ValidGeometry(width, height) => C18_IngestStep]_vars

(* C19 as stated: when the body of a Canvas scope raises, the exit handler  *)
(* runs ingest and commit and the error of the body then reaches the        *)
(* caller; when the body ends normally and ingest and commit succeed, the   *)
(* scope is left without error.  Stated for the controllers whose geometry  *)
(* satisfies the data model's invariant.                                    *)
C19_BodyErrorStep ==
    (call'.op = "Canvas.__exit__" /\ ValidGeometry(width, height)) =>
        /\ call'.args[1] = 1 => call'.raised = "BodyError"
        /\ (call'.args[1] = 0 /\ IsCommit(sent', buffer')) => call'.raised = "none"

C19_BodyError == [][C19_BodyErrorStep]_vars

(* C19 as amended: the exit handler never reports the error of the body as  *)
(* handled.  When the body raises and the handler's own ingest and commit   *)
(* both complete, the error of the body reaches the caller; when the ingest *)
(* or the commit itself raises, that error reaches the caller in its place, *)
(* so a scope whose body raised is never left without error.  When the body *)
(* ends normally and ingest and commit complete, the scope is left without  *)
(* error.                                                                   *)
C19_PropagationStep ==
    call'.op = "Canvas.__exit__" =>
        LET body == call'.args[1] = 1
            completed == /\ call'.trace = <<"image", "display">>
                         /\ IsCommit(sent', buffer')
        IN  /\ (body /\ completed) => call'.raised = "BodyError"
            /\ body => call'.raised # "none"
            /\ ~completed => call'.raised \in {"IndexError", "TransportError"}
            /\ (~body /\ completed) => call'.raised = "none"
            /\ ~canvas'.open

C19_Propagation == [][C19_PropagationStep]_vars

C19_Witness ==
    /\ call.op = "Canvas.__exit__" /\ call.args = <<1>>
    /\ call.raised = "BodyError"
    /\ call.trace = <<"image", "display">>
    /\ IsCommit(sent, buffer)
    /\ width = 64 /\ buffer[1] = 1

(* C20: the bus handle is closed by a close() whose power-off write was     *)
(* accepted and by nothing else.  When that write fails, close() raises the *)
(* transport's error with the handle still open and the controller as it    *)
(* was.  When a write fails during construction, the handle that __init__   *)
(* had opened stays open and the caller gets no controller.                 *)
C20_ReleaseStep ==
    /\ (busOpen /\ ~busOpen') =>
          /\ call'.op = "close" /\ call'.raised = "none"
          /\ CmdBytes(sent') = <<174>>
    /\ (call'.op = "close" /\ call'.raised # "none") =>
          /\ call'.raised = "TransportError"
          /\ call'.trace = <<"power">>
          /\ sent' = <<>>
          /\ busOpen' = busOpen
          /\ state' = state
    /\ (call'.op = "__init__" /\ call'.raised # "none" /\ call'.trace # <<>>) =>
          /\ call'.raised = "TransportError"
          /\ busOpen'
          /\ state' = "Failed"

C20_Release == [][C20_ReleaseStep]_vars

C20_Witness ==
    /\ call.op = "close" /\ call.raised = "TransportError"
    /\ call.trace = <<"power">>
    /\ state = "Ready" /\ busOpen
    /\ sent = <<>>

====
